---- MODULE Spec2Model ----
(***************************************************************************)
(* Model of src/src/app.py: one run of main() of the News Headline         *)
(* Generator (llm_selector, get_user_input / get_news_title, main_Agent /  *)
(* get_model), plus a harness that applies get_model to arbitrary          *)
(* selections.                                                             *)
(*                                                                         *)
(* Python values are tagged records: PyNone is None, Str(s) is the str s.  *)
(***************************************************************************)
EXTENDS Naturals, Sequences, FiniteSets

VARIABLES env, pc, stages, selected_llm, selected_model, selection,
          response, news_headline, user_query, newsRequests,
          getModelArgs, llm_model, llmCalls, run_result, ui, uncaught

vars == <<env, pc, stages, selected_llm, selected_model, selection,
          response, news_headline, user_query, newsRequests,
          getModelArgs, llm_model, llmCalls, run_result, ui, uncaught>>

Range(s) == {s[i] : i \in 1..Len(s)}

\* ---------------------------------------------------------------- values

PyNone == [t |-> "NoneType", v |-> ""]

Str(s) == [t |-> "str", v |-> s]

\* Python truthiness of a str-or-None value ("not key", "if news_headline")
Truthy(x) == x.t = "str" /\ x.v # ""

\* ------------------------------------------------------------ environment

\* api_keys dict of api_setup, in insertion order: label -> environment name
KeyLabels == <<"OpenAI", "xAI", "Claude", "Gemini", "News">>

EnvName ==
  [l \in Range(KeyLabels) |->
     CASE l = "OpenAI" -> "OPENAI_API_KEY"
       [] l = "xAI"    -> "XAI_API_KEY"
       [] l = "Claude" -> "ANTHROPIC_API_KEY"
       [] l = "Gemini" -> "GOOGLE_API_KEY"
       [] l = "News"   -> "NEWS_API_KEY"]

EnvNames == {EnvName[l] : l \in Range(KeyLabels)}

\* The secret stored under an environment name when it is set and non-empty
Secret ==
  [n \in EnvNames |->
     CASE n = "OPENAI_API_KEY"    -> "sk-openai"
       [] n = "XAI_API_KEY"       -> "xai-key"
       [] n = "ANTHROPIC_API_KEY" -> "sk-ant"
       [] n = "GOOGLE_API_KEY"    -> "goog-key"
       [] n = "NEWS_API_KEY"      -> "pub-news"]

\* os.getenv(n): None when unset, "" when set empty, else the secret
Environments == [EnvNames -> {"unset", "empty", "set"}]

getenv(e, n) ==
  CASE e[n] = "unset" -> PyNone
    [] e[n] = "empty" -> Str("")
    [] e[n] = "set"   -> Str(Secret[n])

\* ------------------------------------------------------------- api_setup

NoError == [type |-> "", what |-> "", arg |-> ""]

\* Index of the first label, in dict order, whose key is falsy; 0 if none
FirstMissing(keys) ==
  LET F[k \in 1..(Len(KeyLabels) + 1)] ==
        IF k > Len(KeyLabels) THEN 0
        ELSE IF ~Truthy(keys[KeyLabels[k]]) THEN k ELSE F[k + 1]
  IN F[1]

\* api_setup that leaves the "News" entry out of its validation loop
api_setup_SkipNews(e) ==
  LET api_keys == [l \in Range(KeyLabels) |-> getenv(e, EnvName[l])]
      m == FirstMissing([l \in Range(KeyLabels) |->
                           IF l = "News" THEN Str("unchecked") ELSE api_keys[l]])
  IN IF m # 0
     THEN [raised |-> TRUE,
           error |-> [type |-> "ValueError", what |-> "API key not found",
                      arg |-> KeyLabels[m]],
           api_keys |-> api_keys]
     ELSE [raised |-> FALSE, error |-> NoError, api_keys |-> api_keys]

\* api_setup(): builds the dict, raises ValueError for the first label (in
\* dict order) whose key is None or empty, otherwise returns the dict
api_setup(e) ==
  LET api_keys == [l \in Range(KeyLabels) |-> getenv(e, EnvName[l])]
      m == FirstMissing(api_keys)
  IN IF m # 0
     THEN [raised |-> TRUE,
           error |-> [type |-> "ValueError", what |-> "API key not found",
                      arg |-> KeyLabels[m]],
           api_keys |-> api_keys]
     ELSE [raised |-> FALSE, error |-> NoError, api_keys |-> api_keys]

\* ---------------------------------------------------------- llm_selector

\* llm_models of llm_selector, in dict order
ProviderNames == <<"OpenAIChat", "xAI", "Claude", "Gemini">>

llm_models ==
  [p \in Range(ProviderNames) |->
     CASE p = "OpenAIChat" -> <<"gpt-4o", "gpt-4o-mini", "gpt-3.5-turbo">>
       [] p = "xAI"        -> <<"grok-2-1212", "grok-beta">>
       [] p = "Claude"     -> <<"claude-3-7-sonnet-20250219",
                                "claude-3-5-haiku-20241022">>
       [] p = "Gemini"     -> <<"gemini-2.0-flash", "gemini-1.5-flash",
                                "gemini-1.5-flash-8b">>]

provider_options == <<"Select an LLM Provider">> \o ProviderNames

llm_options(p) == <<"Select a Model">> \o llm_models[p]

\* A call of a streamlit display function: widget, fixed text, argument
Shown(w, msg, arg) == [w |-> w, msg |-> msg, arg |-> arg]

NoSelection == <<>>

\* llm_selector without the test for the "Select a Model" placeholder
llm_selector_NoModelCheck(e, sel_llm, sel_model) ==
  LET title == <<Shown("title", "Select an LLM Model", "")>>
      setup == api_setup(e)
  IN IF sel_llm = "Select an LLM Provider"
     THEN [selection |-> NoSelection,
           ui |-> title \o <<Shown("write",
                    "Please select a valid LLM provider from the dropdown.", "")>>]
     ELSE IF setup.raised
     THEN [selection |-> NoSelection,
           ui |-> title \o <<Shown("error", setup.error.what, setup.error.arg)>>]
     ELSE [selection |-> <<sel_llm, sel_model>>,
           ui |-> title \o <<Shown("write", "Selected LLM Provider:", sel_llm),
                             Shown("write", "Selected Model:", sel_model)>>]

\* llm_selector(): sel_llm and sel_model are what the two selectboxes return
\* (sel_model is read only when a provider was chosen)
llm_selector(e, sel_llm, sel_model) ==
  LET title == <<Shown("title", "Select an LLM Model", "")>>
      setup == api_setup(e)
  IN IF sel_llm = "Select an LLM Provider"
     THEN [selection |-> NoSelection,
           ui |-> title \o <<Shown("write",
                    "Please select a valid LLM provider from the dropdown.", "")>>]
     ELSE IF sel_model = "Select a Model"
     THEN [selection |-> NoSelection,
           ui |-> title \o <<Shown("write",
                    "Please select a valid model from the dropdown.", "")>>]
     ELSE IF setup.raised
     THEN [selection |-> NoSelection,
           ui |-> title \o <<Shown("error", setup.error.what, setup.error.arg)>>]
     ELSE [selection |-> <<sel_llm, sel_model>>,
           ui |-> title \o <<Shown("write", "Selected LLM Provider:", sel_llm),
                             Shown("write", "Selected Model:", sel_model)>>]

\* ------------------------------------------------------------- get_model

NoBackend == [kind |-> "None", id |-> "", api_key |-> PyNone]

Backend(kind, id, key) == [kind |-> kind, id |-> id, api_key |-> key]

\* get_model whose final else returns None instead of raising
get_model_ElseNone(e, sel) ==
  LET setup == api_setup(e)
      keys == setup.api_keys
      ownKey == [p \in Range(ProviderNames) |->
                   IF p = "OpenAIChat" THEN keys["OpenAI"] ELSE keys[p]]
  IN IF sel = NoSelection
     THEN [raised |-> FALSE, error |-> NoError, backend |-> NoBackend]
     ELSE IF setup.raised
     THEN [raised |-> TRUE, error |-> setup.error, backend |-> NoBackend]
     ELSE IF sel[1] \in Range(ProviderNames)
     THEN [raised |-> FALSE, error |-> NoError,
           backend |-> Backend(sel[1], sel[2], ownKey[sel[1]])]
     ELSE [raised |-> FALSE, error |-> NoError, backend |-> NoBackend]

\* get_model whose Claude branch passes the OpenAI key
get_model_WrongKey(e, sel) ==
  LET setup == api_setup(e)
      keys == setup.api_keys
      usedKey == [p \in Range(ProviderNames) |->
                    IF p \in {"OpenAIChat", "Claude"} THEN keys["OpenAI"]
                    ELSE keys[p]]
  IN IF sel = NoSelection
     THEN [raised |-> FALSE, error |-> NoError, backend |-> NoBackend]
     ELSE IF setup.raised
     THEN [raised |-> TRUE, error |-> setup.error, backend |-> NoBackend]
     ELSE IF sel[1] \in Range(ProviderNames)
     THEN [raised |-> FALSE, error |-> NoError,
           backend |-> Backend(sel[1], sel[2], usedKey[sel[1]])]
     ELSE [raised |-> TRUE,
           error |-> [type |-> "ValueError", what |-> "Unsupported LLM provider",
                      arg |-> sel[1]],
           backend |-> NoBackend]

\* get_model(selection): None for None; otherwise api_setup() (which may
\* raise) and the if/elif chain over the provider name
get_model(e, sel) ==
  LET setup == api_setup(e)
      llm_provider == sel[1]
      model_id == sel[2]
      keys == setup.api_keys
  IN IF sel = NoSelection
     THEN [raised |-> FALSE, error |-> NoError, backend |-> NoBackend]
     ELSE IF setup.raised
     THEN [raised |-> TRUE, error |-> setup.error, backend |-> NoBackend]
     ELSE IF llm_provider = "OpenAIChat"
     THEN [raised |-> FALSE, error |-> NoError,
           backend |-> Backend("OpenAIChat", model_id, keys["OpenAI"])]
     ELSE IF llm_provider = "xAI"
     THEN [raised |-> FALSE, error |-> NoError,
           backend |-> Backend("xAI", model_id, keys["xAI"])]
     ELSE IF llm_provider = "Claude"
     THEN [raised |-> FALSE, error |-> NoError,
           backend |-> Backend("Claude", model_id, keys["Claude"])]
     ELSE IF llm_provider = "Gemini"
     THEN [raised |-> FALSE, error |-> NoError,
           backend |-> Backend("Gemini", model_id, keys["Gemini"])]
     ELSE [raised |-> TRUE,
           error |-> [type |-> "ValueError", what |-> "Unsupported LLM provider",
                      arg |-> llm_provider],
           backend |-> NoBackend]

\* -------------------------------------------------------- get_news_title

Article(hasTitle, title) == [hasTitle |-> hasTitle, title |-> title]

\* What news_api.latest_api(...) can do: raise (transport, HTTP or JSON
\* decoding error), or return a dict with or without a 'results' entry
NoResponse == [kind |-> "none", hasResults |-> FALSE, results |-> <<>>]

Raises == [kind |-> "raise", hasResults |-> FALSE, results |-> <<>>]

Json(hasResults, results) ==
  [kind |-> "json", hasResults |-> hasResults, results |-> results]

Titles == {Str("Fed hints at June rate pause - Reuters"), Str(""), PyNone}

Articles == {Article(TRUE, t) : t \in Titles} \cup {Article(FALSE, PyNone)}

NewsResponses ==
  {Raises, Json(FALSE, <<>>), Json(TRUE, <<>>)}
    \cup {Json(TRUE, <<a>>) : a \in Articles}
    \cup {Json(TRUE, <<a, Article(TRUE, Str("Second story - AP"))>>) :
            a \in Articles}

\* get_news_title that asks the service a second time when the first
\* request raised
get_news_title_Retry(e, resp) ==
  LET setup == api_setup(e)
      first == resp.results[1]
  IN IF setup.raised
     THEN [requests |-> 0, value |-> Str(""),
           ui |-> <<Shown("error", "Error fetching news:", setup.error.what)>>]
     ELSE IF resp.kind = "raise"
     THEN [requests |-> 2, value |-> Str(""),
           ui |-> <<Shown("error", "Error fetching news:", "service error")>>]
     ELSE IF ~resp.hasResults \/ resp.results = <<>>
     THEN [requests |-> 1, value |-> Str(""), ui |-> <<>>]
     ELSE IF ~first.hasTitle
     THEN [requests |-> 1, value |-> Str(""),
           ui |-> <<Shown("error", "Error fetching news:", "KeyError")>>]
     ELSE [requests |-> 1, value |-> first.title, ui |-> <<>>]

\* get_news_title(): resp is the service's answer, consulted only when
\* api_setup() did not raise. Every Exception is caught, reported with
\* st.error and turned into "".
get_news_title(e, resp) ==
  LET setup == api_setup(e)
      first == resp.results[1]
  IN IF setup.raised
     THEN [requests |-> 0, value |-> Str(""),
           ui |-> <<Shown("error", "Error fetching news:", setup.error.what)>>]
     ELSE IF resp.kind = "raise"
     THEN [requests |-> 1, value |-> Str(""),
           ui |-> <<Shown("error", "Error fetching news:", "service error")>>]
     ELSE IF ~resp.hasResults \/ resp.results = <<>>
     THEN [requests |-> 1, value |-> Str(""), ui |-> <<>>]
     ELSE IF ~first.hasTitle
     THEN [requests |-> 1, value |-> Str(""),
           ui |-> <<Shown("error", "Error fetching news:", "KeyError")>>]
     ELSE [requests |-> 1, value |-> first.title,
           ui |-> <<>>]

\* --------------------------------------------------------- get_user_input

\* get_user_input(): typed is what st.text_input returns (always a str)
get_user_input(e, resp, typed) ==
  LET news == get_news_title(e, resp)
  IN [news |-> news,
      user_query |-> typed,
      ui |-> news.ui \o
             (IF Truthy(news.value)
              THEN <<Shown("markdown", "News API Headline:", news.value.v),
                     Shown("info", "Copy the headline above and paste it into the box below to test with different LLMs.", "")>>
              ELSE <<Shown("warning", "No news headline available. Please check the API key or try again later.", "")>>)]

UserTexts == {Str(""), Str("Fed hints at June rate pause"),
              Str("Fed hints at June rate pause - Reuters")}

\* ------------------------------------------------------------- main_Agent

\* What myagent.run(user_query) can do: raise, or return a RunResponse
\* whose content is free text
WellFormed == "{headline, question, date_pattern, category, source, options: [A, B, C, D]}"

BackendTexts == {WellFormed, "{options: [A, B, C]}", "I cannot help with that", ""}

NoRun == [kind |-> "none", content |-> ""]

RunOutcomes == {[kind |-> "raise", content |-> ""]}
                 \cup {[kind |-> "return", content |-> c] : c \in BackendTexts}

\* The messages of the three early returns of main_Agent
EnterHeadline == Shown("info", "Please enter or paste a news headline to proceed.", "")

NoModelSelected == Shown("error", "No LLM model selected. Please choose an option from the sidebar.", "")

InitError == Shown("error", "Error initializing the LLM model.", "")

\* main_Agent without the early return on an empty user_query
main_Agent_prepare_NoEmptyCheck(e, query, sel) ==
  LET got == get_model(e, sel)
  IN IF sel = NoSelection
     THEN [next |-> "return", ui |-> <<NoModelSelected>>, gm |-> <<>>,
           backend |-> NoBackend, error |-> NoError]
     ELSE IF got.raised
     THEN [next |-> "raise", ui |-> <<>>, gm |-> <<sel>>,
           backend |-> NoBackend, error |-> got.error]
     ELSE IF got.backend = NoBackend
     THEN [next |-> "return", ui |-> <<InitError>>, gm |-> <<sel>>,
           backend |-> NoBackend, error |-> NoError]
     ELSE [next |-> "run", ui |-> <<>>, gm |-> <<sel>>,
           backend |-> got.backend, error |-> NoError]

\* main_Agent up to the call myagent.run(user_query): the early returns,
\* get_model (whose exception nothing catches) and the Agent construction
main_Agent_prepare(e, query, sel) ==
  LET got == get_model(e, sel)
  IN IF ~Truthy(query)
     THEN [next |-> "return", ui |-> <<EnterHeadline>>, gm |-> <<>>,
           backend |-> NoBackend, error |-> NoError]
     ELSE IF sel = NoSelection
     THEN [next |-> "return", ui |-> <<NoModelSelected>>, gm |-> <<>>,
           backend |-> NoBackend, error |-> NoError]
     ELSE IF got.raised
     THEN [next |-> "raise", ui |-> <<>>, gm |-> <<sel>>,
           backend |-> NoBackend, error |-> got.error]
     ELSE IF got.backend = NoBackend
     THEN [next |-> "return", ui |-> <<InitError>>, gm |-> <<sel>>,
           backend |-> NoBackend, error |-> NoError]
     ELSE [next |-> "run", ui |-> <<>>, gm |-> <<sel>>,
           backend |-> got.backend, error |-> NoError]

\* main_Agent that shows a warning in place of content that is not the
\* well-formed prediction object
main_Agent_render_Validate(out) ==
  <<Shown("markdown", "------------------------- LLM Result -------------------------", ""),
    IF out.content = WellFormed
    THEN Shown("markdown", "", out.content)
    ELSE Shown("warning", "Malformed prediction", "")>>

\* main_Agent after myagent.run returned out: the two st.markdown calls
main_Agent_render(out) ==
  <<Shown("markdown", "------------------------- LLM Result -------------------------", ""),
    Shown("markdown", "", out.content)>>

\* ------------------------------------------------------------ run of main

Terminal == {"PredictionRendered", "Failed"}

Init ==
  /\ env \in Environments
  /\ pc = "Idle"
  /\ stages = <<"Idle">>
  /\ selected_llm = ""
  /\ selected_model = ""
  /\ selection = NoSelection
  /\ response = NoResponse
  /\ news_headline = [called |-> FALSE, value |-> PyNone]
  /\ user_query = PyNone
  /\ newsRequests = 0
  /\ getModelArgs = <<>>
  /\ llm_model = NoBackend
  /\ llmCalls = 0
  /\ run_result = NoRun
  /\ ui = <<>>
  /\ uncaught = NoError

\* main, line 292: selection = llm_selector()
LlmSelector ==
  /\ pc = "Idle"
  /\ \E sel_llm \in Range(provider_options) :
       \E sel_model \in (IF sel_llm \in Range(ProviderNames)
                         THEN Range(llm_options(sel_llm)) ELSE {""}) :
         LET r == llm_selector(env, sel_llm, sel_model)
         IN /\ selected_llm' = sel_llm
            /\ selected_model' = sel_model
            /\ selection' = r.selection
            /\ ui' = ui \o r.ui
  /\ pc' = "ProviderSelected"
  /\ stages' = Append(stages, "ProviderSelected")
  /\ UNCHANGED <<env, response, news_headline, user_query, newsRequests,
                 getModelArgs, llm_model, llmCalls, run_result, uncaught>>

\* main, line 293: user_query = get_user_input()
GetUserInput ==
  /\ pc = "ProviderSelected"
  /\ \E resp \in NewsResponses, typed \in UserTexts :
       LET r == get_user_input(env, resp, typed)
       IN /\ response' = (IF r.news.requests > 0 THEN resp ELSE NoResponse)
          /\ newsRequests' = newsRequests + r.news.requests
          /\ news_headline' = [called |-> TRUE, value |-> r.news.value]
          /\ user_query' = r.user_query
          /\ ui' = ui \o r.ui
  /\ pc' = "HeadlineObtained"
  /\ stages' = Append(stages, "HeadlineObtained")
  /\ UNCHANGED <<env, selected_llm, selected_model, selection, getModelArgs,
                 llm_model, llmCalls, run_result, uncaught>>

\* main, line 294: main_Agent(user_query, selection), up to myagent.run
MainAgent ==
  /\ pc = "HeadlineObtained"
  /\ LET r == main_Agent_prepare(env, user_query, selection)
     IN /\ ui' = ui \o r.ui
        /\ getModelArgs' = getModelArgs \o r.gm
        /\ llm_model' = r.backend
        /\ uncaught' = r.error
        /\ llmCalls' = llmCalls + (IF r.next = "run" THEN 1 ELSE 0)
        /\ pc' = (IF r.next = "run" THEN "PredictionRequested" ELSE "Failed")
        /\ stages' = Append(stages, pc')
  /\ UNCHANGED <<env, selected_llm, selected_model, selection, response,
                 news_headline, user_query, newsRequests, run_result>>

\* AgentRun that calls myagent.run a second time when the first call raised
AgentRun_Retry ==
  /\ pc = "PredictionRequested"
  /\ \E out \in RunOutcomes :
       /\ run_result' = out
       /\ IF out.kind = "return"
          THEN /\ ui' = ui \o main_Agent_render(out)
               /\ uncaught' = uncaught
               /\ llmCalls' = llmCalls
               /\ pc' = "PredictionRendered"
          ELSE IF llmCalls < 2
          THEN /\ ui' = ui
               /\ uncaught' = uncaught
               /\ llmCalls' = llmCalls + 1
               /\ pc' = "PredictionRequested"
          ELSE /\ ui' = ui
               /\ uncaught' = [type |-> "Exception", what |-> "myagent.run failed",
                               arg |-> ""]
               /\ llmCalls' = llmCalls
               /\ pc' = "Failed"
  /\ stages' = Append(stages, pc')
  /\ UNCHANGED <<env, selected_llm, selected_model, selection, response,
                 news_headline, user_query, newsRequests, getModelArgs,
                 llm_model>>

\* myagent.run(user_query) comes back: a result that is rendered, or an
\* exception that nothing in main_Agent or main catches
AgentRun ==
  /\ pc = "PredictionRequested"
  /\ \E out \in RunOutcomes :
       /\ run_result' = out
       /\ IF out.kind = "return"
          THEN /\ ui' = ui \o main_Agent_render(out)
               /\ uncaught' = uncaught
               /\ pc' = "PredictionRendered"
          ELSE /\ ui' = ui
               /\ uncaught' = [type |-> "Exception", what |-> "myagent.run failed",
                               arg |-> ""]
               /\ pc' = "Failed"
  /\ stages' = Append(stages, pc')
  /\ UNCHANGED <<env, selected_llm, selected_model, selection, response,
                 news_headline, user_query, newsRequests, getModelArgs,
                 llm_model, llmCalls>>

Next == LlmSelector \/ GetUserInput \/ MainAgent \/ AgentRun

Spec == Init /\ [][Next]_vars

\* The script is sequential: each statement of main runs once the previous
\* one has returned
FairSpec == Spec /\ WF_vars(Next)

\* ------------------------------------------ get_model applied on its own

AnyProviders == Range(provider_options) \cup {"OpenAI", "claude", "Mistral", ""}

AnyModels == {"gpt-4o", "grok-beta", "claude-3-5-haiku-20241022",
              "no-such-model", "Select a Model"}

AnySelections == {NoSelection} \cup {<<p, m>> : p \in AnyProviders, m \in AnyModels}

InitGetModel ==
  /\ env \in Environments
  /\ selection \in AnySelections
  /\ pc = "get_model:call"
  /\ stages = <<>>
  /\ selected_llm = ""
  /\ selected_model = ""
  /\ response = NoResponse
  /\ news_headline = [called |-> FALSE, value |-> PyNone]
  /\ user_query = PyNone
  /\ newsRequests = 0
  /\ getModelArgs = <<>>
  /\ llm_model = NoBackend
  /\ llmCalls = 0
  /\ run_result = NoRun
  /\ ui = <<>>
  /\ uncaught = NoError

\* One call get_model(selection): the returned handle goes to llm_model,
\* the exception raised (if any) to uncaught
CallGetModel ==
  /\ pc = "get_model:call"
  /\ LET r == get_model(env, selection)
     IN /\ llm_model' = r.backend
        /\ uncaught' = r.error
        /\ pc' = (IF r.raised THEN "get_model:raised" ELSE "get_model:returned")
  /\ getModelArgs' = Append(getModelArgs, selection)
  /\ UNCHANGED <<env, stages, selected_llm, selected_model, selection, response,
                 news_headline, user_query, newsRequests, llmCalls, run_result,
                 ui>>

SpecGetModel == InitGetModel /\ [][CallGetModel]_vars

\* ================================================================ claims

AllKeysPresent == \A n \in EnvNames : env[n] = "set"

AfterInput == pc \in {"HeadlineObtained", "PredictionRequested"} \cup Terminal

ConfigErrorShown ==
  Shown("error", "Error fetching news:", "API key not found") \in Range(ui)

\* C1: in a run in which some required credential is absent or empty, no
\* news-service request is sent, llm_selector yields no selection, no backend
\* is built and the LLM is never invoked; once get_news_title has run, the
\* configuration error has been raised and reported.
C1_ConfigErrorBeforeAnyRequest ==
  ~AllKeysPresent =>
     /\ newsRequests = 0
     /\ selection = NoSelection
     /\ getModelArgs = <<>>
     /\ llm_model = NoBackend
     /\ llmCalls = 0
     /\ response = NoResponse
     /\ (AfterInput => ConfigErrorShown)

C1_Witness ==
  /\ pc = "Failed"
  /\ env["NEWS_API_KEY"] = "empty"
  /\ \A n \in EnvNames \ {"NEWS_API_KEY"} : env[n] = "set"
  /\ selected_llm = "Claude"
  /\ selected_model = "claude-3-5-haiku-20241022"
  /\ Truthy(user_query)

UnsupportedCall ==
  /\ pc \in {"get_model:raised", "get_model:returned"}
  /\ selection # NoSelection
  /\ selection[1] \notin {"OpenAIChat", "xAI", "Claude", "Gemini"}

\* C2 as stated: for every selection whose provider is outside the four
\* names, get_model fails with the unsupported-provider error and returns no
\* backend handle.
C2_AlwaysUnsupportedError ==
  UnsupportedCall =>
     /\ pc = "get_model:raised"
     /\ uncaught.what = "Unsupported LLM provider"
     /\ llm_model = NoBackend

\* C2 amended: for every such selection get_model raises a ValueError and
\* returns no backend handle; the error is the unsupported-provider error
\* naming the provider when all five credentials are present, and the
\* missing-credential error of api_setup otherwise.
C2_UnsupportedOrConfigError ==
  UnsupportedCall =>
     /\ pc = "get_model:raised"
     /\ llm_model = NoBackend
     /\ uncaught.type = "ValueError"
     /\ (AllKeysPresent =>
           uncaught.what = "Unsupported LLM provider" /\ uncaught.arg = selection[1])
     /\ (~AllKeysPresent => uncaught.what = "API key not found")

C2_Witness ==
  /\ UnsupportedCall
  /\ AllKeysPresent
  /\ selection = <<"Mistral", "no-such-model">>
  /\ uncaught.what = "Unsupported LLM provider"

\* The environment variable that holds each provider's own credential
OwnCredential ==
  [p \in {"OpenAIChat", "xAI", "Claude", "Gemini"} |->
     CASE p = "OpenAIChat" -> "OPENAI_API_KEY"
       [] p = "xAI"        -> "XAI_API_KEY"
       [] p = "Claude"     -> "ANTHROPIC_API_KEY"
       [] p = "Gemini"     -> "GOOGLE_API_KEY"]

SupportedCall ==
  /\ pc \in {"get_model:raised", "get_model:returned"}
  /\ selection # NoSelection
  /\ selection[1] \in {"OpenAIChat", "xAI", "Claude", "Gemini"}
  /\ AllKeysPresent

\* C3: with all credentials present, get_model on a supported provider and
\* any model id returns a backend of that provider's kind, bound to exactly
\* the requested model id and to the value of that provider's own
\* environment variable.
C3_BackendBoundToOwnCredential ==
  SupportedCall =>
     /\ pc = "get_model:returned"
     /\ uncaught = NoError
     /\ llm_model.kind = selection[1]
     /\ llm_model.id = selection[2]
     /\ llm_model.api_key = getenv(env, OwnCredential[selection[1]])
     /\ \A q \in {"OpenAIChat", "xAI", "Claude", "Gemini"} \ {selection[1]} :
          llm_model.api_key # getenv(env, OwnCredential[q])

C3_Witness ==
  /\ SupportedCall
  /\ selection = <<"Claude", "no-such-model">>
  /\ llm_model.api_key = Str("sk-ant")

\* The service failed or yielded no results
ServiceFailedOrEmpty ==
  \/ response.kind \in {"none", "raise"}
  \/ ~response.hasResults
  \/ response.results = <<>>

\* C4: get_news_title returns a string, never null, for every outcome of the
\* news service, and the empty string whenever the service fails or yields
\* no results.
C4_HeadlineIsAlwaysAString ==
  news_headline.called =>
     /\ news_headline.value.t = "str"
     /\ (ServiceFailedOrEmpty => news_headline.value = Str(""))

\* C5: when the text entered is empty, whatever the selection and the news
\* service did, no backend is constructed, the LLM is not called, and the
\* run ends with the prompt to enter a headline.
C5_EmptyHeadlineNeverReachesFormatter ==
  (AfterInput /\ ~Truthy(user_query)) =>
     /\ getModelArgs = <<>>
     /\ llm_model = NoBackend
     /\ llmCalls = 0
     /\ run_result = NoRun
     /\ pc \in {"HeadlineObtained", "Failed"}
     /\ (pc = "Failed" => ui[Len(ui)] = EnterHeadline)

C5_Witness ==
  /\ pc = "Failed"
  /\ user_query = Str("")
  /\ selection = <<"Gemini", "gemini-2.0-flash">>
  /\ Truthy(news_headline.value)
  /\ EnterHeadline \in Range(ui)

\* C6: no error escapes: every run ends rendered or failed with a message
\* on the page, never with an exception leaving main().
C6_NoErrorEscapes ==
  pc \in Terminal =>
     /\ uncaught = NoError
     /\ ui # <<>>
     /\ ui[Len(ui)].w \in {"info", "error", "markdown"}

Prefixes(order) == {SubSeq(order, 1, k) : k \in 1..Len(order)}

\* The stage sequences of a linear pass through order: a prefix of order,
\* possibly closed by Failed, or all of order closed by a terminal stage
LinearPasses(order) ==
  Prefixes(order)
    \cup {q \o <<"Failed">> : q \in Prefixes(order)}
    \cup {order \o <<"PredictionRendered">>}

CodeOrder == <<"Idle", "ProviderSelected", "HeadlineObtained", "PredictionRequested">>

C8_AtMostOnceEach ==
  /\ newsRequests <= 1
  /\ llmCalls <= 1
  /\ Len(getModelArgs) <= 1
  /\ (/\ pc \in Terminal
      /\ Truthy(user_query)
      /\ selected_llm \in {"OpenAIChat", "xAI", "Claude", "Gemini"}
      /\ selected_model # "Select a Model"
      /\ AllKeysPresent) => (newsRequests = 1 /\ llmCalls = 1)

C8_Witness ==
  /\ pc = "Failed"
  /\ response = Raises
  /\ run_result.kind = "raise"
  /\ newsRequests = 1
  /\ llmCalls = 1

\* C9: whatever text the backend returns, the run ends rendered and the
\* last thing displayed is that text, unchanged.
C9_BackendTextDisplayedAsIs ==
  /\ (run_result.kind = "return" =>
        /\ pc = "PredictionRendered"
        /\ uncaught = NoError
        /\ ui[Len(ui)] = [w |-> "markdown", msg |-> "", arg |-> run_result.content])
  /\ (pc = "PredictionRendered" => run_result.kind = "return")

C9_Witness ==
  /\ pc = "PredictionRendered"
  /\ run_result.content = "{options: [A, B, C]}"
  /\ ui[Len(ui)].arg = "{options: [A, B, C]}"

StaticModels ==
  [p \in {"OpenAIChat", "xAI", "Claude", "Gemini"} |->
     CASE p = "OpenAIChat" -> {"gpt-4o", "gpt-4o-mini", "gpt-3.5-turbo"}
       [] p = "xAI"        -> {"grok-2-1212", "grok-beta"}
       [] p = "Claude"     -> {"claude-3-7-sonnet-20250219",
                               "claude-3-5-haiku-20241022"}
       [] p = "Gemini"     -> {"gemini-2.0-flash", "gemini-1.5-flash",
                               "gemini-1.5-flash-8b"}]

ValidSelection(sel) ==
  /\ Len(sel) = 2
  /\ sel[1] \in DOMAIN StaticModels
  /\ sel[2] \in StaticModels[sel[1]]

\* C10: in a run of main() the selection is absent or a supported provider
\* with a model of that provider's static list; only such pairs reach
\* get_model and the backend, and the unsupported-provider error never
\* occurs.
C10_OnlyMenuSelectionsReachGetModel ==
  /\ (selection = NoSelection \/ ValidSelection(selection))
  /\ \A i \in DOMAIN getModelArgs : ValidSelection(getModelArgs[i])
  /\ (llm_model # NoBackend =>
        /\ llm_model.kind \in DOMAIN StaticModels
        /\ llm_model.id \in StaticModels[llm_model.kind])
  /\ uncaught.what # "Unsupported LLM provider"
  /\ (selected_llm = "Select an LLM Provider" \/ selected_model = "Select a Model"
        => selection = NoSelection /\ getModelArgs = <<>>)

C10_Witness ==
  /\ getModelArgs = <<<<"xAI", "grok-beta">>>>
  /\ llm_model.kind = "xAI"
  /\ pc = "PredictionRequested"

====
